---- MODULE Spec2Model ----
(***************************************************************************)
(* Model of the infrared reverse proxy:                                    *)
(*   - cmd/root.go: the root command (rootCmd.RunE) and the config-change  *)
(*     callback onConfigChange, with the mutex mu, the proxy map proxies   *)
(*     and the pluginManager;                                              *)
(*   - internal/pkg/bedrock/conn_processer.go: ConnProcessor.ProcessConn;  *)
(*   - the Java status ClientBoundResponse codec.                          *)
(***************************************************************************)
EXTENDS Integers, Sequences, FiniteSets, TLC

(***************************************************************************)
(* Bounds of the model.                                                    *)
(***************************************************************************)
NumReloaders == 2
MaxChanges == 2
MaxConns == 1
MaxAddrLen == 4
MaxStrLen == 3

(***************************************************************************)
(* cmd/root.go                                                             *)
(***************************************************************************)
JavaEdition == "java"
BedrockEdition == "bedrock"
Editions == {JavaEdition, BedrockEdition}

Reloaders == 1..NumReloaders
NoHolder == 0
NoDoc == [ver |-> 0, javaOk |-> TRUE, bedrockOk |-> TRUE]
NoCfg == [edition |-> "none", ver |-> -1]

VARIABLES
    \* rootCmd.RunE
    mainPc,         \* the line RunE is about to execute
    exit,           \* "running", "nil" (RunE returned nil), "err"
    registered,     \* config.New has registered onConfigChange
    proxies,        \* the keys of the map proxies
    proxyCfg,       \* the configuration each proxy currently serves with
    pluginManager,  \* "unset" (zero value) or "set"
    plugins,        \* what has been called on the plugin manager
    listening,      \* per edition: "no", "started", "ok", "bindFailed"
    accepted,       \* connections accepted by the listeners
    crashed,        \* the runtime aborted the process
    \* onConfigChange, one invocation per reloader
    mu, rpc, doc, changes, keysAtStart, visited, events, cfgAtLock,
    \* bedrock ConnProcessor.ProcessConn
    bpc, conn, result,
    \* status codec
    spc, sin, sout

supVars == <<mainPc, exit, registered, proxies, proxyCfg, pluginManager, plugins,
             listening, accepted, crashed, mu, rpc, doc, changes, keysAtStart,
             visited, events, cfgAtLock>>
bedVars == <<bpc, conn, result>>
statVars == <<spc, sin, sout>>
vars == <<supVars, bedVars, statVars>>

mainVars == <<mainPc, exit, registered, proxies, pluginManager, plugins,
              listening, accepted>>
reloadVars == <<mu, rpc, doc, changes, keysAtStart, visited, events, cfgAtLock>>

Alive == ~crashed /\ exit = "running"

SupInit ==
    /\ mainPc = "newLogger"
    /\ exit = "running"
    /\ registered = FALSE
    /\ proxies = {}
    /\ proxyCfg = [e \in Editions |-> NoCfg]
    /\ pluginManager = "unset"
    /\ plugins = [loaded |-> FALSE, loadFailed |-> FALSE, enabled |-> FALSE,
                  disabled |-> FALSE]
    /\ listening = [e \in Editions |-> "no"]
    /\ accepted = 0
    /\ crashed = FALSE
    /\ mu = NoHolder
    /\ rpc = [w \in Reloaders |-> "idle"]
    /\ doc = [w \in Reloaders |-> NoDoc]
    /\ changes = 0
    /\ keysAtStart = [w \in Reloaders |-> {}]
    /\ visited = [w \in Reloaders |-> {}]
    /\ events = [w \in Reloaders |-> <<>>]
    /\ cfgAtLock = [w \in Reloaders |-> proxyCfg]

\* A step of RunE that either fails (RunE returns the error) or goes on.
\* Deferred calls run on every return: DisablePlugins once line 120 was passed.
ReturnErr ==
    /\ mainPc' = "returned"
    /\ exit' = "err"

Step(from, to) ==
    /\ Alive
    /\ mainPc = from
    /\ \E ok \in BOOLEAN :
        IF ok THEN mainPc' = to /\ exit' = exit ELSE ReturnErr

\* lines 52-56
NewLogger ==
    /\ Step("newLogger", "chdir")
    /\ UNCHANGED <<registered, proxies, proxyCfg, pluginManager, plugins,
                   listening, accepted, crashed, reloadVars,
                   bedVars, statVars>>

\* lines 58-60
Chdir ==
    /\ Step("chdir", "seed")
    /\ UNCHANGED <<registered, proxies, proxyCfg, pluginManager, plugins,
                   listening, accepted, crashed, reloadVars,
                   bedVars, statVars>>

\* lines 66-70
SeedConfig ==
    /\ Step("seed", "configNew")
    /\ UNCHANGED <<registered, proxies, proxyCfg, pluginManager, plugins,
                   listening, accepted, crashed, reloadVars,
                   bedVars, statVars>>

\* lines 72-75: from here on the watcher may call onConfigChange
ConfigNew ==
    /\ Step("configNew", "javaProxy")
    /\ registered' = (mainPc' = "javaProxy")
    /\ UNCHANGED <<proxies, proxyCfg, pluginManager, plugins,
                   listening, accepted, crashed, reloadVars,
                   bedVars, statVars>>

\* NewProxy, then the unlocked write proxies[e] = prx
NewProxy(e, from, to) ==
    /\ Step(from, to)
    /\ IF mainPc' = to
         THEN /\ proxies' = proxies \cup {e}
              /\ proxyCfg' = [proxyCfg EXCEPT ![e] = [edition |-> e, ver |-> 0]]
         ELSE UNCHANGED <<proxies, proxyCfg>>
    /\ UNCHANGED <<registered, pluginManager, plugins,
                   listening, accepted, crashed, reloadVars,
                   bedVars, statVars>>

\* lines 77-91: cfg.Read, java.NewProxyConfigFromMap, NewProxy, the map write
JavaNewProxy == NewProxy(JavaEdition, "javaProxy", "bedrockProxy")

\* lines 93-102: bedrock.NewProxyConfigFromMap, NewProxy, the map write
BedrockNewProxy == NewProxy(BedrockEdition, "bedrockProxy", "pluginManager")

\* lines 104-115: the unlocked assignment of pluginManager
NewPluginManager ==
    /\ Alive
    /\ mainPc = "pluginManager"
    /\ pluginManager' = "set"
    /\ mainPc' = "loadPlugins"
    /\ UNCHANGED <<exit, registered, proxies, proxyCfg, plugins,
                   listening, accepted, crashed, reloadVars,
                   bedVars, statVars>>

\* line 117: the outcome of LoadPlugins is not looked at
AfterLoadPluginsNoEnable(failed) == "startProxies"
AfterLoadPlugins(failed) == "enablePlugins"

LoadPlugins ==
    /\ Alive
    /\ mainPc = "loadPlugins"
    /\ \E failed \in BOOLEAN :
        /\ plugins' = [plugins EXCEPT !.loaded = TRUE, !.loadFailed = failed]
        /\ mainPc' = AfterLoadPlugins(failed)
    /\ UNCHANGED <<exit, registered, proxies, proxyCfg, pluginManager,
                   listening, accepted, crashed, reloadVars,
                   bedVars, statVars>>

\* lines 119-120
EnablePlugins ==
    /\ Alive
    /\ mainPc = "enablePlugins"
    /\ plugins' = [plugins EXCEPT !.enabled = TRUE]
    /\ mainPc' = "startProxies"
    /\ UNCHANGED <<exit, registered, proxies, proxyCfg, pluginManager,
                   listening, accepted, crashed, reloadVars,
                   bedVars, statVars>>

\* lines 123-125: go proxy.ListenAndServe for every proxy of the map
StartProxies ==
    /\ Alive
    /\ mainPc = "startProxies"
    /\ listening' = [e \in Editions |-> IF e \in proxies THEN "started"
                                         ELSE listening[e]]
    /\ mainPc' = "waitSignal"
    /\ UNCHANGED <<exit, registered, proxies, proxyCfg, pluginManager, plugins,
                   accepted, crashed, reloadVars,
                   bedVars, statVars>>

\* The goroutine of line 124: the listener binds or fails to; its result goes
\* nowhere.
ListenAndServe(e) ==
    /\ Alive
    /\ listening[e] = "started"
    /\ \E ok \in BOOLEAN :
        listening' = [listening EXCEPT ![e] = IF ok THEN "ok" ELSE "bindFailed"]
    /\ UNCHANGED <<mainPc, exit, registered, proxies, proxyCfg, pluginManager,
                   plugins, accepted, crashed, reloadVars,
                   bedVars, statVars>>

\* A connection-serving task of a bound listener.
AcceptConn(e) ==
    /\ Alive
    /\ listening[e] = "ok"
    /\ accepted < MaxConns
    /\ accepted' = accepted + 1
    /\ UNCHANGED <<mainPc, exit, registered, proxies, proxyCfg, pluginManager,
                   plugins, listening, crashed, reloadVars,
                   bedVars, statVars>>

\* lines 127-130 with the deferred DisablePlugins of line 120
DeferredDisable(p) == [p EXCEPT !.disabled = TRUE]

WaitSignal ==
    /\ Alive
    /\ mainPc = "waitSignal"
    /\ plugins' = DeferredDisable(plugins)
    /\ mainPc' = "returned"
    /\ exit' = "nil"
    /\ UNCHANGED <<registered, proxies, proxyCfg, pluginManager,
                   listening, accepted, crashed, reloadVars,
                   bedVars, statVars>>

\* The runtime detects the unlocked map write of startup (lines 91, 102)
\* racing with the map iteration of a reload (line 226) and aborts.
RaceFault ==
    /\ Alive
    /\ mainPc \in {"javaProxy", "bedrockProxy"}
    /\ \E w \in Reloaders : rpc[w] = "range"
    /\ crashed' = TRUE
    /\ UNCHANGED <<mainVars, proxyCfg, reloadVars,
                   bedVars, statVars>>

(***************************************************************************)
(* onConfigChange (lines 200-236).  The config collaborator calls it, on   *)
(* a task of its own, for every change it sees once config.New has         *)
(* registered it.                                                          *)
(***************************************************************************)
Notify(w) ==
    /\ Alive
    /\ registered
    /\ rpc[w] = "idle"
    /\ \A v \in Reloaders : v < w => rpc[v] # "idle"
    /\ changes < MaxChanges
    /\ changes' = changes + 1
    /\ doc' = [doc EXCEPT ![w] = [NoDoc EXCEPT !.ver = changes + 1]]
    /\ rpc' = [rpc EXCEPT ![w] = "lock"]
    /\ UNCHANGED <<mainVars, proxyCfg, crashed, mu, cfgAtLock, events, visited,
                   keysAtStart,
                   bedVars, statVars>>

\* line 201: mu.Lock()
CanLockNoExclusion(w) == TRUE
CanLock(w) == mu = NoHolder

Lock(w) ==
    /\ Alive
    /\ rpc[w] = "lock"
    /\ CanLock(w)
    /\ mu' = w
    /\ cfgAtLock' = [cfgAtLock EXCEPT ![w] = proxyCfg]
    /\ rpc' = [rpc EXCEPT ![w] = "parseJava"]
    /\ UNCHANGED <<mainVars, proxyCfg, crashed, doc, changes, keysAtStart,
                   visited, events,
                   bedVars, statVars>>

\* lines 204-210
AfterJavaParseNoAbort(ok) == "parseBedrock"
AfterJavaParse(ok) == IF ok THEN "parseBedrock" ELSE "unlock"

ParseJava(w) ==
    /\ Alive
    /\ rpc[w] = "parseJava"
    /\ \E ok \in BOOLEAN :
        /\ doc' = [doc EXCEPT ![w].javaOk = ok]
        /\ rpc' = [rpc EXCEPT ![w] = AfterJavaParse(ok)]
    /\ UNCHANGED <<mainVars, proxyCfg, crashed, mu, changes, keysAtStart,
                   visited, events, cfgAtLock,
                   bedVars, statVars>>

\* lines 212-218; then the range statement of line 226 begins on the map as
\* it is
AfterBedrockParse(ok) == IF ok THEN "range" ELSE "unlock"

ParseBedrock(w) ==
    /\ Alive
    /\ rpc[w] = "parseBedrock"
    /\ \E ok \in BOOLEAN :
        /\ doc' = [doc EXCEPT ![w].bedrockOk = ok]
        /\ rpc' = [rpc EXCEPT ![w] = AfterBedrockParse(ok)]
        /\ keysAtStart' = [keysAtStart EXCEPT ![w] = IF ok THEN proxies ELSE {}]
    /\ UNCHANGED <<mainVars, proxyCfg, crashed, mu, changes,
                   visited, events, cfgAtLock,
                   bedVars, statVars>>

\* lines 220-223: prxCfgs[n]
prxCfgs(w, n) == [edition |-> n, ver |-> doc[w].ver]

\* lines 227-231: a Reload error is logged and the loop goes on
AfterReloadAbort(err) == IF err THEN "unlock" ELSE "range"
AfterReload(err) == "range"

\* lines 226-232, one iteration: an entry of the map not yet produced.  An
\* entry created while the loop runs may be produced or skipped.
ReloadProxy(w) ==
    /\ Alive
    /\ rpc[w] = "range"
    /\ \E n \in proxies \ visited[w], err \in BOOLEAN :
        /\ visited' = [visited EXCEPT ![w] = @ \cup {n}]
        /\ events' = [events EXCEPT ![w] =
               Append(@, [op |-> "Reload", proxy |-> n, cfg |-> prxCfgs(w, n),
                          err |-> err])]
        /\ proxyCfg' = IF err THEN proxyCfg
                       ELSE [proxyCfg EXCEPT ![n] = prxCfgs(w, n)]
        /\ rpc' = [rpc EXCEPT ![w] = AfterReload(err)]
    /\ UNCHANGED <<mainVars, crashed, mu, doc, changes, keysAtStart, cfgAtLock,
                   bedVars, statVars>>

\* the loop of line 226 ends
RangeDone(w) ==
    /\ Alive
    /\ rpc[w] = "range"
    /\ keysAtStart[w] \subseteq visited[w]
    /\ rpc' = [rpc EXCEPT ![w] = "plugins"]
    /\ UNCHANGED <<mainVars, proxyCfg, crashed, mu, doc, changes, keysAtStart,
                   visited, events, cfgAtLock,
                   bedVars, statVars>>

\* line 235
ReloadPlugins(w) ==
    /\ Alive
    /\ rpc[w] = "plugins"
    /\ events' = [events EXCEPT ![w] =
           Append(@, [op |-> "ReloadPlugins", proxy |-> pluginManager,
                      cfg |-> NoCfg, err |-> FALSE])]
    /\ rpc' = [rpc EXCEPT ![w] = "unlock"]
    /\ UNCHANGED <<mainVars, proxyCfg, crashed, mu, doc, changes, keysAtStart,
                   visited, cfgAtLock,
                   bedVars, statVars>>

\* line 202: the deferred mu.Unlock(), on every return
Unlock(w) ==
    /\ Alive
    /\ rpc[w] = "unlock"
    /\ mu' = IF mu = w THEN NoHolder ELSE mu
    /\ rpc' = [rpc EXCEPT ![w] = "idle"]
    /\ doc' = [doc EXCEPT ![w] = NoDoc]
    /\ keysAtStart' = [keysAtStart EXCEPT ![w] = {}]
    /\ visited' = [visited EXCEPT ![w] = {}]
    /\ events' = [events EXCEPT ![w] = <<>>]
    /\ cfgAtLock' = [cfgAtLock EXCEPT ![w] = [e \in Editions |-> NoCfg]]
    /\ UNCHANGED <<mainVars, proxyCfg, crashed, changes,
                   bedVars, statVars>>

onConfigChange(w) ==
    \/ Lock(w)
    \/ ParseJava(w)
    \/ ParseBedrock(w)
    \/ ReloadProxy(w)
    \/ RangeDone(w)
    \/ ReloadPlugins(w)
    \/ Unlock(w)

RunE ==
    \/ NewLogger
    \/ Chdir
    \/ SeedConfig
    \/ ConfigNew
    \/ JavaNewProxy
    \/ BedrockNewProxy
    \/ NewPluginManager
    \/ LoadPlugins
    \/ EnablePlugins
    \/ StartProxies
    \/ WaitSignal

(***************************************************************************)
(* internal/pkg/bedrock/conn_processer.go                                  *)
(*                                                                         *)
(* Bytes and characters are one-character strings; a client's traffic is   *)
(* the sequence of byte chunks its connection's Read calls return.         *)
(***************************************************************************)
AddrChars == {"h", ".", ":", "[", "]"}
AddrStrings == UNION {[1..n -> AddrChars] : n \in 0..MaxAddrLen}
SourceAddrs == {"s"}
Names == {"n"}
TransportAddr == "peer"

IndexByte(s, ch) ==
    IF \E i \in 1..Len(s) : s[i] = ch
      THEN CHOOSE i \in 1..Len(s) : s[i] = ch /\ \A j \in 1..(i - 1) : s[j] # ch
      ELSE 0

LastIndexByte(s, ch) ==
    IF \E i \in 1..Len(s) : s[i] = ch
      THEN CHOOSE i \in 1..Len(s) : s[i] = ch /\ \A j \in (i + 1)..Len(s) : s[j] # ch
      ELSE 0

Contains(s, ch) == IndexByte(s, ch) # 0

\* net.SplitHostPort, as called at line 75: [host, err]
SplitHostPort(hostport) ==
    LET i == LastIndexByte(hostport, ":")
        end == IndexByte(hostport, "]")
        bracket == Len(hostport) > 0 /\ hostport[1] = "["
        host == IF bracket THEN SubSeq(hostport, 2, end - 1)
                ELSE SubSeq(hostport, 1, i - 1)
        fromJ == IF bracket THEN SubSeq(hostport, 2, Len(hostport)) ELSE hostport
        fromK == IF bracket THEN SubSeq(hostport, end + 1, Len(hostport)) ELSE hostport
        fail(e) == [host |-> <<>>, err |-> e]
    IN  IF i = 0 THEN fail("missing port in address")
        ELSE IF bracket /\ end = 0 THEN fail("missing ']' in address")
        ELSE IF bracket /\ end = Len(hostport) THEN fail("missing port in address")
        ELSE IF bracket /\ end + 1 # i
            THEN IF hostport[end + 1] = ":" THEN fail("too many colons in address")
                 ELSE fail("missing port in address")
        ELSE IF ~bracket /\ Contains(host, ":") THEN fail("too many colons in address")
        ELSE IF Contains(fromJ, "[") THEN fail("unexpected '[' in address")
        ELSE IF Contains(fromK, "]") THEN fail("unexpected ']' in address")
        ELSE [host |-> host, err |-> "nil"]

\* lines 72-79: the requested host out of the login's ServerAddress
ServerAddr(address) ==
    IF Contains(address, ":") THEN SplitHostPort(address)
    ELSE [host |-> address, err |-> "nil"]

RECURSIVE Fill(_, _, _)
\* proxyproto.Read(bufio.NewReader(c)), line 39.  The buffered reader takes
\* whole chunks off the connection until the header is complete; what it has
\* buffered beyond the header stays in the reader, which is dropped.
\* [err, src, header, buffered, next]: next is the first chunk not yet read.
Fill(stream, k, buf) ==
    IF buf # <<>> /\ buf[1] # "P"
      THEN [err |-> "ErrNoProxyProtocol", src |-> "", header |-> <<>>,
            buffered |-> buf, next |-> k + 1]
    ELSE IF Contains(buf, "\n")
      THEN LET n == IndexByte(buf, "\n")
               header == SubSeq(buf, 1, n)
               valid == n = 3 /\ header[2] \in SourceAddrs
           IN  [err |-> IF valid THEN "nil" ELSE "ErrCantReadAddress",
                src |-> IF valid THEN header[2] ELSE "",
                header |-> header, buffered |-> buf, next |-> k + 1]
    ELSE IF k < Len(stream) THEN Fill(stream, k + 1, buf \o stream[k + 1])
    ELSE [err |-> "EOF", src |-> "", header |-> <<>>, buffered |-> buf,
          next |-> k + 1]

proxyprotoRead(stream) == Fill(stream, 0, <<>>)

\* pc.ReadPacket(), line 46: the next chunk of the connection
ReadPacket(stream, next) ==
    IF next <= Len(stream) THEN [b |-> stream[next], err |-> "nil"]
    ELSE [b |-> <<>>, err |-> "EOF"]

\* decoder.Decode(), lines 52-60: the packets of a batch
Decode(b) ==
    IF b = <<>> \/ b[1] # "B" THEN [pks |-> <<>>, err |-> "invalid batch"]
    ELSE IF Len(b) = 1 THEN [pks |-> <<>>, err |-> "nil"]
    ELSE [pks |-> <<Tail(b)>>, err |-> "nil"]

\* protocol.UnmarshalPacket(pks[0], &loginPk), lines 62-65
UnmarshalLogin(pk) ==
    IF pk[1] = "L" THEN [ConnectionRequest |-> Tail(pk), err |-> "nil"]
    ELSE [ConnectionRequest |-> <<>>, err |-> "invalid packet id"]

\* login.Parse(loginPk.ConnectionRequest), lines 67-70
loginParse(req) ==
    IF req # <<>> /\ req[1] \in Names
      THEN [DisplayName |-> req[1], ServerAddress |-> Tail(req), err |-> "nil"]
      ELSE [DisplayName |-> "", ServerAddress |-> <<>>, err |-> "invalid chain"]

\* The listener's Conn: proxyProtocol is set for a listener that receives the
\* PROXY protocol from a trusted peer.
NewConn(receiveProxyProtocol, trusted, stream) ==
    [proxyProtocol |-> receiveProxyProtocol /\ trusted,
     receiveProxyProtocol |-> receiveProxyProtocol, trusted |-> trusted,
     remote |-> TransportAddr, stream |-> stream]

NilConn == [remoteAddr |-> "", readBytes |-> <<>>, username |-> "",
            serverAddr |-> <<>>]

\* line 43
RemoteAddrKept(c, header) == c.remote
RemoteAddrAfterHeader(c, header) == header.src

\* ProcessConn, lines 32-82: [err, pc, header, read], where header and read
\* are the header bytes and all the bytes taken off the connection.
ProcessConn(c) ==
    LET header == IF c.proxyProtocol THEN proxyprotoRead(c.stream)
                  ELSE [err |-> "nil", src |-> "", header |-> <<>>,
                        buffered |-> <<>>, next |-> 1]
        remoteAddr == IF c.proxyProtocol THEN RemoteAddrAfterHeader(c, header)
                      ELSE c.remote
        pkt == ReadPacket(c.stream, header.next)
        dec == Decode(pkt.b)
        lg == IF dec.err = "nil" /\ Len(dec.pks) >= 1
                THEN UnmarshalLogin(dec.pks[1])
                ELSE [ConnectionRequest |-> <<>>, err |-> "nil"]
        parsed == loginParse(lg.ConnectionRequest)
        addr == ServerAddr(parsed.ServerAddress)
        fail(e, read) == [err |-> e, pc |-> NilConn, header |-> header.header,
                          read |-> read]
    IN  IF header.err # "nil" THEN fail(header.err, header.buffered)
        ELSE IF pkt.err # "nil" THEN fail(pkt.err, header.buffered)
        ELSE IF dec.err # "nil" THEN fail(dec.err, header.buffered \o pkt.b)
        ELSE IF Len(dec.pks) < 1
            THEN fail("no valid packets received", header.buffered \o pkt.b)
        ELSE IF lg.err # "nil" THEN fail(lg.err, header.buffered \o pkt.b)
        ELSE IF parsed.err # "nil" THEN fail(parsed.err, header.buffered \o pkt.b)
        ELSE IF addr.err # "nil" THEN fail(addr.err, header.buffered \o pkt.b)
        ELSE [err |-> "nil",
              pc |-> [remoteAddr |-> remoteAddr, readBytes |-> pkt.b,
                      username |-> parsed.DisplayName, serverAddr |-> addr.host],
              header |-> header.header,
              read |-> header.buffered \o pkt.b]

\* What a client may send: an optional PROXY header, whole, split over two
\* chunks, with a byte after it in its chunk, or broken; then a login packet
\* or something else.
HeaderChunks ==
    {<<>>} \cup {<<<<"P", a, "\n">>>> : a \in SourceAddrs}
           \cup {<<<<"P">>, <<a, "\n">>>> : a \in SourceAddrs}
           \cup {<<<<"P", a, "\n", "z">>>> : a \in SourceAddrs}
           \cup {<<<<"P", "\n">>>>}

LoginChunks ==
    {<<<<"B", "L", n>> \o a>> : n \in Names, a \in AddrStrings}
        \cup {<<>>, <<<<"B">>>>, <<<<"B", "X">>>>, <<<<"B", "L">>>>, <<<<"X">>>>}

Streams == {h \o l : h \in HeaderChunks, l \in LoginChunks}

NoResult == [err |-> "", pc |-> NilConn, header |-> <<>>, read |-> <<>>]

BedrockInit ==
    /\ bpc = "accepted"
    /\ \E r \in BOOLEAN, t \in BOOLEAN, s \in Streams : conn = NewConn(r, t, s)
    /\ result = NoResult

ProcessConnStep ==
    /\ bpc = "accepted"
    /\ result' = ProcessConn(conn)
    /\ bpc' = "processed"
    /\ UNCHANGED <<conn, supVars, statVars>>

(***************************************************************************)
(* The Java status response codec (package status).  Bytes are numbers     *)
(* 0..255; a protocol.String is the sequence of its bytes.                 *)
(***************************************************************************)
ClientBoundResponsePacketID == 0

JSONChars == {34, 123, 125}
PacketIDs == {ClientBoundResponsePacketID, 1, 2}
DataBytes == {0, 1, 2, 123, 129}
JSONStrings == UNION {[1..n -> JSONChars] : n \in 0..MaxStrLen}
PacketData == UNION {[1..n -> DataBytes] : n \in 0..MaxStrLen}

RECURSIVE EncodeVarInt(_)
\* protocol.VarInt: seven bits a byte, low group first, high bit = more
EncodeVarInt(n) ==
    IF n < 128 THEN <<n>>
    ELSE <<(n % 128) + 128>> \o EncodeVarInt(n \div 128)

RECURSIVE DecodeVarInt(_, _, _, _)
\* [value, size, err]: at most five bytes
DecodeVarInt(data, at, value, weight) ==
    IF at > 5 THEN [value |-> 0, size |-> 0, err |-> "VarInt is too big"]
    ELSE IF at > Len(data) THEN [value |-> 0, size |-> 0, err |-> "EOF"]
    ELSE IF data[at] < 128
      THEN [value |-> value + data[at] * weight, size |-> at, err |-> "nil"]
    ELSE DecodeVarInt(data, at + 1, value + (data[at] - 128) * weight, weight * 128)

\* protocol.String: its length as a VarInt, then its bytes
EncodeString(str) == EncodeVarInt(Len(str)) \o str

\* protocol.MarshalPacket(id, fields...), lines 12-15
MarshalPacket(id, str) == [ID |-> id, Data |-> EncodeString(str)]

\* packet.Scan(&str), lines 25-29
Scan(packet) ==
    LET n == DecodeVarInt(packet.Data, 1, 0, 1)
    IN  IF n.err # "nil" THEN [str |-> <<>>, err |-> n.err]
        ELSE IF n.size + n.value > Len(packet.Data) THEN [str |-> <<>>, err |-> "EOF"]
        ELSE [str |-> SubSeq(packet.Data, n.size + 1, n.size + n.value),
              err |-> "nil"]

\* ClientBoundResponse.Marshal, lines 11-16
Marshal(pk) == MarshalPacket(ClientBoundResponsePacketID, pk.JSONResponse)

\* UnmarshalClientBoundResponse, lines 18-32: [pk, err, scanned]
UnmarshalAnyID(packet) ==
    LET r == Scan(packet)
    IN  [pk |-> [JSONResponse |-> r.str], err |-> r.err, scanned |-> TRUE]

UnmarshalClientBoundResponse(packet) ==
    IF packet.ID # ClientBoundResponsePacketID
      THEN [pk |-> [JSONResponse |-> <<>>], err |-> "ErrInvalidPacketID",
            scanned |-> FALSE]
      ELSE LET r == Scan(packet)
           IN  [pk |-> [JSONResponse |-> r.str], err |-> r.err, scanned |-> TRUE]

NoPacket == [ID |-> ClientBoundResponsePacketID, Data |-> <<>>]
NoResponse == [pk |-> [JSONResponse |-> <<>>], err |-> "", scanned |-> FALSE]

\* Either a response to marshal and read back, or a packet off the wire.
StatusInit ==
    /\ \/ /\ spc = "response"
          /\ \E str \in JSONStrings : sin = [JSONResponse |-> str]
          /\ sout = [packet |-> NoPacket, res |-> NoResponse]
       \/ /\ spc = "packet"
          /\ sin = [JSONResponse |-> <<>>]
          /\ \E id \in PacketIDs, d \in PacketData :
                sout = [packet |-> [ID |-> id, Data |-> d], res |-> NoResponse]

MarshalStep ==
    /\ spc = "response"
    /\ sout' = [sout EXCEPT !.packet = Marshal(sin)]
    /\ spc' = "marshalled"
    /\ UNCHANGED <<sin, supVars, bedVars>>

UnmarshalStep ==
    /\ spc \in {"marshalled", "packet"}
    /\ sout' = [sout EXCEPT !.res = UnmarshalClientBoundResponse(sout.packet)]
    /\ spc' = IF spc = "marshalled" THEN "roundtrip" ELSE "unmarshalled"
    /\ UNCHANGED <<sin, supVars, bedVars>>

BedOff == bpc = "off" /\ conn = NewConn(FALSE, FALSE, <<>>) /\ result = NoResult

StatOff ==
    /\ spc = "off"
    /\ sin = [JSONResponse |-> <<>>]
    /\ sout = [packet |-> NoPacket, res |-> NoResponse]

Init ==
    /\ SupInit
    /\ BedOff
    /\ StatOff

Next ==
    \/ RunE
    \/ RaceFault
    \/ \E e \in Editions : ListenAndServe(e)
    \/ \E e \in Editions : AcceptConn(e)
    \/ \E w \in Reloaders : Notify(w)
    \/ \E w \in Reloaders : onConfigChange(w)

Spec == Init /\ [][Next]_vars
InitBedrock ==
    /\ SupInit
    /\ BedrockInit
    /\ StatOff

NextBedrock == ProcessConnStep

SpecBedrock == InitBedrock /\ [][NextBedrock]_vars
InitStatus ==
    /\ SupInit
    /\ BedOff
    /\ StatusInit

NextStatus ==
    \/ MarshalStep
    \/ UnmarshalStep

SpecStatus == InitStatus /\ [][NextStatus]_vars

(***************************************************************************)
(* The claims.                                                             *)
(***************************************************************************)
Body == {"parseJava", "parseBedrock", "range", "plugins", "unlock"}
ParseOk(w) == doc[w].javaOk /\ doc[w].bedrockOk
ReloadsOf(w, e) ==
    {i \in 1..Len(events[w]) : events[w][i].op = "Reload" /\ events[w][i].proxy = e}
PluginReloads(w) ==
    {i \in 1..Len(events[w]) : events[w][i].op = "ReloadPlugins"}

\* C1: an onConfigChange whose document fails to parse for either edition
\* calls Reload on no proxy, does not reload the plugins, and leaves every
\* proxy with the configuration it had when the reload began.
C1_ParseFailureAborts ==
    \A w \in Reloaders :
        (rpc[w] \in Body /\ ~ParseOk(w)) =>
            /\ rpc[w] \notin {"range", "plugins"}
            /\ events[w] = <<>>
            /\ \A e \in Editions :
                  cfgAtLock[w][e] # NoCfg => proxyCfg[e] = cfgAtLock[w][e]

\* a failed reload returns while a proxy serves with an earlier reload's
\* configuration
C1_Witness ==
    \E w \in Reloaders :
        /\ rpc[w] = "unlock"
        /\ ~ParseOk(w)
        /\ \E e \in Editions : proxyCfg[e].ver >= 1

\* C2 as stated: at most one reload is between its first Reload and its
\* plugin reload, mu is not held while the document is parsed nor while the
\* plugins are reloaded, and only reloads ever hold mu.
C2_MutexOnlyAcrossSwap ==
    /\ Cardinality({w \in Reloaders : rpc[w] \in {"range", "plugins"}}) <= 1
    /\ \A w \in Reloaders :
          rpc[w] \in {"parseJava", "parseBedrock", "plugins"} => mu # w
    /\ mu \in Reloaders \cup {NoHolder}

\* C2 amended: mu is held by a reload from before the document is parsed
\* until after the plugins are reloaded, so at most one onConfigChange is
\* anywhere in its body; only reloads ever hold or wait for mu.
C2_MutexAcrossWholeReload ==
    /\ Cardinality({w \in Reloaders : rpc[w] \in Body}) <= 1
    /\ \A w \in Reloaders : rpc[w] \in Body <=> mu = w
    /\ mu \in Reloaders \cup {NoHolder}

\* one reload reloads the plugins while another waits for mu and a
\* connection has been accepted
C2_Witness ==
    \E w, v \in Reloaders :
        /\ rpc[w] = "plugins"
        /\ rpc[v] = "lock"
        /\ accepted > 0

\* C3: the root command returns an error when it returns before the plugins
\* are loaded (bad configuration), and after a listener failed to bind or a
\* plugin failed to load it neither waits for the shutdown signal nor
\* returns nil.
C3_FatalStartupErrorExitsNonZero ==
    /\ (mainPc = "returned" /\ ~plugins.loaded) => exit = "err"
    /\ ((\E e \in Editions : listening[e] = "bindFailed") \/ plugins.loadFailed) =>
          /\ mainPc # "waitSignal"
          /\ exit # "nil"

\* C7: a reload whose document parses calls Reload at most once on a proxy,
\* always with the new configuration of that proxy's edition; a Reload error
\* does not end the loop; the plugins are reloaded once, last, after Reload
\* was called on every proxy the map held when the loop began.
C7_ReloadEveryProxyThenPlugins ==
    \A w \in Reloaders :
        /\ \A e \in Editions : Cardinality(ReloadsOf(w, e)) <= 1
        /\ \A i \in 1..Len(events[w]) :
              events[w][i].op = "Reload" =>
                  events[w][i].cfg = [edition |-> events[w][i].proxy,
                                      ver |-> doc[w].ver]
        /\ \A i \in PluginReloads(w) :
              /\ i = Len(events[w])
              /\ \A e \in keysAtStart[w] : ReloadsOf(w, e) # {}
        /\ (rpc[w] = "unlock" /\ ParseOk(w)) =>
              /\ Cardinality(PluginReloads(w)) = 1
              /\ \A e \in keysAtStart[w] : Cardinality(ReloadsOf(w, e)) = 1

\* both proxies were reloaded, the first Reload failed, the plugins followed
C7_Witness ==
    \E w \in Reloaders :
        /\ rpc[w] = "unlock"
        /\ ParseOk(w)
        /\ keysAtStart[w] = Editions
        /\ Len(events[w]) = 3
        /\ events[w][1].err

\* C8: no reload iterates the proxy map while startup still writes it or
\* before it holds both editions, none uses the plugin manager before it is
\* assigned, and the runtime never aborts on the race.
C8_NoReloadDuringStartup ==
    /\ ~crashed
    /\ \A w \in Reloaders :
          /\ rpc[w] = "range" =>
                /\ mainPc \notin {"javaProxy", "bedrockProxy"}
                /\ proxies = Editions
          /\ rpc[w] = "plugins" => pluginManager = "set"

\* C10: a listener is started only after both proxies exist and the plugins
\* were loaded and then enabled; a connection is accepted only with the
\* plugins enabled; the command returns nil only after DisablePlugins, and
\* never returns with the plugins enabled and not disabled.
C10_StartupShutdownOrder ==
    /\ (\E e \in Editions : listening[e] # "no") =>
          /\ proxies = Editions
          /\ pluginManager = "set"
          /\ plugins.loaded
          /\ plugins.enabled
    /\ plugins.enabled => plugins.loaded
    /\ accepted > 0 => plugins.enabled
    /\ exit = "nil" => plugins.disabled
    /\ (mainPc = "returned" /\ plugins.enabled) => plugins.disabled

\* the command returned nil after a connection had been accepted
C10_Witness ==
    /\ exit = "nil"
    /\ accepted > 0
    /\ plugins.disabled

\* The ServerAddress of the login packet a client sent first.
LoginOf(c) ==
    LET dec == Decode(c.stream[1])
        lg == UnmarshalLogin(dec.pks[1])
    IN  IF Len(c.stream) = 1 /\ dec.err = "nil" /\ Len(dec.pks) >= 1 /\ lg.err = "nil"
          THEN loginParse(lg.ConnectionRequest)
          ELSE [DisplayName |-> "", ServerAddress |-> <<>>, err |-> "none"]

C5_HostStripped ==
    (bpc = "processed" /\ ~conn.proxyProtocol /\ LoginOf(conn).err = "nil") =>
        LET a == LoginOf(conn).ServerAddress
            host == result.pc.serverAddr
            colons == {i \in 1..Len(a) : a[i] = ":"}
            literal == /\ Cardinality(colons) >= 2
                       /\ \A i \in 1..Len(a) : a[i] \in {"h", ":"}
        IN  /\ result.err = "nil" => (host = <<>> \/ host[Len(host)] # ".")
            /\ ~Contains(a, ":") => (result.err = "nil")
            /\ literal => (result.err = "nil")

\* C6: on success the prelude holds every byte taken off the connection
\* after the PROXY header.
C6_PreludeComplete ==
    (bpc = "processed" /\ result.err = "nil") =>
        result.header \o result.pc.readBytes = result.read

\* C9: a marshalled response has ID 0x00 and unmarshals to the same JSON
\* with no error; a packet of another ID gives ErrInvalidPacketID and is not
\* scanned.
C9_StatusResponseCodec ==
    /\ spc = "roundtrip" =>
          /\ sout.packet.ID = ClientBoundResponsePacketID
          /\ sout.res.err = "nil"
          /\ sout.res.pk.JSONResponse = sin.JSONResponse
    /\ (spc = "unmarshalled" /\ sout.packet.ID # ClientBoundResponsePacketID) =>
          /\ sout.res.err = "ErrInvalidPacketID"
          /\ ~sout.res.scanned
          /\ sout.res.pk.JSONResponse = <<>>

\* a non-empty response was marshalled and read back
C9_Witness ==
    /\ spc = "roundtrip"
    /\ Len(sin.JSONResponse) >= 2
    /\ sout.packet.Data = <<Len(sin.JSONResponse)>> \o sin.JSONResponse
    /\ sout.res.pk.JSONResponse = sin.JSONResponse
====
